---- MODULE Spec2Model ----
(***************************************************************************)
(* A model of the caption / keyword / step-time pipeline of the recipes   *)
(* repository:                                                             *)
(*   - predict_step_times            (src/youtube/generate_recipes.py)     *)
(*   - search_vtt_for_keywords       (src/youtube/generate_recipes.py)     *)
(*   - parse_vtt_cues                (src/youtube/generate_recipes.py)     *)
(*   - lambda_handler           (src/lambda/youtube-extractor/handler.py)  *)
(*   - VideoExtractor._dedupe_yt_captions, parse_captions and              *)
(*     download_captions                                                   *)
(*                         (src/lambda/youtube-extractor/extractor.py)     *)
(* Each component has its own specification (SpecTimer, SpecDedupe,        *)
(* SpecMatcher, SpecParser, SpecHandler, SpecDownload); the variables of   *)
(* the other components stay idle.                                         *)
(*                                                                         *)
(* Text is a sequence of one-character strings, times of captions are      *)
(* integers in milliseconds, times of steps are integers in seconds.       *)
(***************************************************************************)
EXTENDS Integers, Sequences, FiniteSets, TLC

VARIABLES
    pc,                 \* position of the running function
    instructions,       \* predict_step_times: the list of instruction dicts
    video_duration,     \* predict_step_times: its second argument
    known_times,        \* predict_step_times: the (index, time) pairs of pass 2
    ti,                 \* predict_step_times: loop index of the third pass
    captions,           \* _dedupe_yt_captions: the Caption objects of subs_iter
    subs_input,         \* the captions as they were handed to the first run
    previous_subtitle,  \* _dedupe_yt_captions: index of the pending caption, 0 for None
    di,                 \* _dedupe_yt_captions: index of the next caption of subs_iter
    yielded,            \* _dedupe_yt_captions: indexes of the captions yielded so far
    run,                \* 1: first run, 2: run on the output of the first
    first_output,       \* the captions the first run yielded
    cues,               \* search_vtt_for_keywords: parse_vtt_cues(vtt_content)
    keywords,           \* search_vtt_for_keywords: its keywords argument
    matches,            \* search_vtt_for_keywords: the matches collected so far
    seen_timestamps,    \* search_vtt_for_keywords: keyword_lower -> timestamps
    ki,                 \* search_vtt_for_keywords: index of the current keyword
    ci,                 \* search_vtt_for_keywords: index of the current cue
    vtt_lines,          \* parse_vtt_cues: vtt_content.split('\n')
    li,                 \* parse_vtt_cues: the index i, counted from 1
    parsed_cues,        \* parse_vtt_cues: the list cues
    cache,              \* lambda_handler: the S3 objects combined/<video_id>.json.gz
    event,              \* lambda_handler: the request
    result,             \* lambda_handler: what extractor.extract returned
    http_response,      \* lambda_handler: the response returned, None while running
    extract_calls,      \* lambda_handler: calls of extractor.extract in this request
    s3_read,            \* lambda_handler: how s3.get_object of check_cache ended
    cache_at_entry,     \* the cache when lambda_handler was entered
    caption_obj,        \* download_captions: its argument
    proxy,              \* download_captions: self.proxy
    attempt,            \* download_captions: the loop variable attempt
    get_calls,          \* download_captions: the calls of requests.get so far
    get_outcomes,       \* download_captions: how each of these calls ended
    sleeps,             \* download_captions: the arguments of time.sleep so far
    download_result     \* download_captions: what it returned or raised, None while running

timer_vars == <<instructions, video_duration, known_times, ti>>
dedupe_vars == <<captions, subs_input, previous_subtitle, di, yielded, run, first_output>>
matcher_vars == <<cues, keywords, matches, seen_timestamps, ki, ci>>
parser_vars == <<vtt_lines, li, parsed_cues>>
handler_vars == <<cache, event, result, http_response, extract_calls, s3_read, cache_at_entry>>
download_vars == <<caption_obj, proxy, attempt, get_calls, get_outcomes, sleeps, download_result>>
vars == <<pc, timer_vars, dedupe_vars, matcher_vars, parser_vars, handler_vars, download_vars>>

(***************************************************************************)
(* Bounds of the model.                                                    *)
(***************************************************************************)
MaxSteps == 3
MaxCues == 3
MaxKeywords == 2

(***************************************************************************)
(* Python helpers.                                                         *)
(***************************************************************************)
\* None / an absent key is the empty tuple, a present value v is <<v>>.
None == <<>>
Some(v) == <<v>>
IsNone(o) == o = <<>>
Val(o) == o[1]

Max(a, b) == IF a >= b THEN a ELSE b
Min(a, b) == IF a <= b THEN a ELSE b
Abs(a) == IF a >= 0 THEN a ELSE -a

\* a // b for b > 0 (floor division).
FloorDiv(a, b) == a \div b

\* int(a / b) for b > 0: truncation toward zero.
TruncDiv(a, b) == IF a >= 0 THEN a \div b ELSE -((-a) \div b)

\* str.lower() on the letters the model uses.
UpperLetters == <<"A", "B", "C", "D", "E", "F", "G", "H", "I", "J", "K", "L", "M", "N", "O", "P", "Q", "R", "S", "T", "U", "V", "W", "X", "Y", "Z">>
LowerLetters == <<"a", "b", "c", "d", "e", "f", "g", "h", "i", "j", "k", "l", "m", "n", "o", "p", "q", "r", "s", "t", "u", "v", "w", "x", "y", "z">>

LowerChar(c) ==
    IF \E k \in 1..Len(UpperLetters) : UpperLetters[k] = c
    THEN LowerLetters[CHOOSE k \in 1..Len(UpperLetters) : UpperLetters[k] = c]
    ELSE c

lower(s) == [k \in 1..Len(s) |-> LowerChar(s[k])]

(***************************************************************************)
(* The variables of a component that is not running.                       *)
(***************************************************************************)
TimerIdle ==
    /\ instructions = <<>>
    /\ video_duration = 0
    /\ known_times = <<>>
    /\ ti = 0

DedupeIdle ==
    /\ captions = <<>>
    /\ subs_input = <<>>
    /\ previous_subtitle = 0
    /\ di = 0
    /\ yielded = <<>>
    /\ run = 0
    /\ first_output = <<>>

MatcherIdle ==
    /\ cues = <<>>
    /\ keywords = <<>>
    /\ matches = <<>>
    /\ seen_timestamps = <<>>
    /\ ki = 0
    /\ ci = 0

ParserIdle ==
    /\ vtt_lines = <<>>
    /\ li = 0
    /\ parsed_cues = <<>>

HandlerIdle ==
    /\ cache = <<>>
    /\ event = <<>>
    /\ result = <<>>
    /\ http_response = <<>>
    /\ extract_calls = 0
    /\ s3_read = "none"
    /\ cache_at_entry = <<>>

DownloadIdle ==
    /\ caption_obj = <<>>
    /\ proxy = <<>>
    /\ attempt = 0
    /\ get_calls = <<>>
    /\ get_outcomes = <<>>
    /\ sleeps = <<>>
    /\ download_result = <<>>

(***************************************************************************)
(* predict_step_times                                                      *)
(***************************************************************************)
MIN_STEP_DURATION == 5

kw_chop == <<"c", "h", "o", "p">>
kw_Chop == <<"C", "h", "o", "p">>
kw_onion == <<"o", "n", "i", "o", "n">>

Ref(k, t) == [keyword |-> k, timestamp_seconds |-> t]

\* The (video_references, techniques) a step may carry on entry.
StepChoices ==
    { [refs |-> <<>>,                                  techniques |-> <<>>],
      [refs |-> <<Ref(kw_onion, 0)>>,                  techniques |-> <<kw_chop>>],
      [refs |-> <<Ref(kw_onion, 3), Ref(kw_Chop, 60)>>, techniques |-> <<kw_chop>>],
      [refs |-> <<Ref(kw_onion, 60), Ref(kw_onion, 7)>>, techniques |-> <<>>],
      [refs |-> <<Ref(kw_chop, 100)>>,                 techniques |-> <<kw_Chop>>],
      [refs |-> <<Ref(kw_onion, 30)>>,                 techniques |-> <<>>] }

Durations == {-1, 0, 4, 12, 90}

MkInstruction(k, c) ==
    [ step |-> k,
      techniques |-> c.techniques,
      video_references |-> c.refs,
      has_raw_start |-> FALSE,
      raw_start |-> None,
      predicted_time |-> None ]

MinTimestamp(refs) ==
    CHOOSE m \in {refs[k].timestamp_seconds : k \in DOMAIN refs} :
        \A k \in DOMAIN refs : m <= refs[k].timestamp_seconds

IsTechniqueRef(r, techniques) ==
    \E k \in DOMAIN techniques : lower(r.keyword) = lower(techniques[k])

\* Lines 383-400: the raw start of one instruction.
RawStartMinAll(instruction) ==
    IF instruction.video_references = <<>> THEN None
    ELSE Some(MinTimestamp(instruction.video_references))

RawStart(instruction) ==
    LET refs == instruction.video_references
        technique_refs == SelectSeq(refs, LAMBDA r : IsTechniqueRef(r, instruction.techniques))
    IN  IF refs = <<>> THEN None
        ELSE IF technique_refs # <<>> THEN Some(MinTimestamp(technique_refs))
        ELSE Some(MinTimestamp(refs))

\* Line 406: [(i, raw_start)] of the instructions whose raw start is known.
KnownTimes(insts) ==
    LET idx == SelectSeq([k \in 1..Len(insts) |-> k], LAMBDA k : ~IsNone(insts[k].raw_start))
    IN  [j \in 1..Len(idx) |-> <<idx[j], Val(insts[idx[j]].raw_start)>>]

\* Lines 418-426: the last known pair before i, the first known pair after i.
PrevKnown(known, i) ==
    LET js == {j \in DOMAIN known : known[j][1] < i}
    IN  IF js = {} THEN None
        ELSE Some(known[CHOOSE j \in js : \A j2 \in js : j2 <= j])

NextKnown(known, i) ==
    LET js == {j \in DOMAIN known : known[j][1] > i}
    IN  IF js = {} THEN None
        ELSE Some(known[CHOOSE j \in js : \A j2 \in js : j <= j2])

\* Lines 432-433: int(prev_time + (i - prev_idx) / (next_idx - prev_idx) * (next_time - prev_time)).
InterpolateIntegerRatio(i, prev_known, next_known) ==
    prev_known[2] + FloorDiv(i - prev_known[1], next_known[1] - prev_known[1])
                      * (next_known[2] - prev_known[2])

Interpolate(i, prev_known, next_known) ==
    TruncDiv(prev_known[2] * (next_known[1] - prev_known[1])
               + (i - prev_known[1]) * (next_known[2] - prev_known[2]),
             next_known[1] - prev_known[1])

\* Lines 438-439.
ExtrapolateForwardUncapped(i, prev_known, n, vd) ==
    prev_known[2] + FloorDiv(vd, n) * (i - prev_known[1])

ExtrapolateForward(i, prev_known, n, vd) ==
    Min(prev_known[2] + FloorDiv(vd, n) * (i - prev_known[1]), vd - MIN_STEP_DURATION)

\* Lines 443-444.
ExtrapolateBackward(i, next_known, n, vd) ==
    Max(next_known[2] - FloorDiv(vd, n) * (next_known[1] - i), 0)

\* Lines 410, 432, 438, 443: the divisors of the second pass.
SecondPassDivisorsUnguarded(insts, known) ==
    {Len(insts)}

SecondPassDivisors(insts, known) ==
    IF known = <<>> THEN {Max(Len(insts), 1)}
    ELSE UNION { LET p == PrevKnown(known, i)
                     q == NextKnown(known, i)
                 IN  IF ~IsNone(p) /\ ~IsNone(q) THEN {Val(q)[1] - Val(p)[1]}
                     ELSE {Len(insts)} :
                 i \in {k \in 1..Len(insts) : IsNone(insts[k].raw_start)} }

\* Lines 408-444: the raw start instruction i leaves the second pass with.
FilledRawStartOneBased(insts, known, i, vd) ==
    IF ~IsNone(insts[i].raw_start) THEN Val(insts[i].raw_start)
    ELSE i * FloorDiv(vd, Max(Len(insts), 1))

FilledRawStart(insts, known, i, vd) ==
    IF known = <<>> THEN (i - 1) * FloorDiv(vd, Max(Len(insts), 1))
    ELSE IF ~IsNone(insts[i].raw_start) THEN Val(insts[i].raw_start)
    ELSE LET p == PrevKnown(known, i)
             q == NextKnown(known, i)
         IN  IF ~IsNone(p) /\ ~IsNone(q) THEN Interpolate(i, Val(p), Val(q))
             ELSE IF ~IsNone(p) THEN ExtrapolateForward(i, Val(p), Len(insts), vd)
             ELSE ExtrapolateBackward(i, Val(q), Len(insts), vd)

\* Line 448: instructions.sort(key=lambda x: x.get('step', 0)), a stable sort.
RECURSIVE SortByStep(_)
SortByStep(insts) ==
    IF Len(insts) <= 1 THEN insts
    ELSE LET sorted == SortByStep(SubSeq(insts, 1, Len(insts) - 1))
             x == insts[Len(insts)]
             before == SelectSeq(sorted, LAMBDA y : y.step <= x.step)
             after == SelectSeq(sorted, LAMBDA y : y.step > x.step)
         IN  before \o <<x>> \o after

\* Lines 452-456: the start of step i.
PrevEnd(insts, i) ==
    IF IsNone(insts[i - 1].predicted_time) THEN 0
    ELSE Val(insts[i - 1].predicted_time).end_seconds

EffectiveStartRawOnly(insts, i) ==
    Max(Val(insts[i].raw_start), 0)

EffectiveStart(insts, i) ==
    IF i > 1 THEN Max(Val(insts[i].raw_start), PrevEnd(insts, i))
    ELSE Max(Val(insts[i].raw_start), 0)

\* Lines 459-465: the end of step i before the minimum-duration check.
TentativeEndAlwaysMin(insts, i, start, vd) ==
    IF i < Len(insts)
    THEN Max(Val(insts[i + 1].raw_start), start + MIN_STEP_DURATION)
    ELSE start + MIN_STEP_DURATION

TentativeEnd(insts, i, start, vd) ==
    IF i < Len(insts)
    THEN LET next_start == IF insts[i + 1].has_raw_start
                           THEN Val(insts[i + 1].raw_start) ELSE vd
         IN  Max(next_start, start + MIN_STEP_DURATION)
    ELSE vd

\* Lines 468-469.
EnsureMinimum(start, end, vd) ==
    IF end - start < MIN_STEP_DURATION
    THEN Min(start + MIN_STEP_DURATION, vd)
    ELSE end

\* Lines 450-474: the predicted_time of step i.
PredictedTimeNoMinimum(insts, i, vd) ==
    LET start == EffectiveStart(insts, i)
    IN  [start_seconds |-> start,
         end_seconds |-> IF i < Len(insts)
                         THEN Max(Val(insts[i + 1].raw_start), start) ELSE vd]

PredictedTime(insts, i, vd) ==
    LET start == EffectiveStart(insts, i)
        end == EnsureMinimum(start, TentativeEnd(insts, i, start, vd), vd)
    IN  [start_seconds |-> start, end_seconds |-> end]

TimerInit ==
    /\ pc = "first_pass"
    /\ \E n \in 0..MaxSteps : \E f \in [1..n -> StepChoices] :
           instructions = [k \in 1..n |-> MkInstruction(k, f[k])]
    /\ video_duration \in Durations
    /\ known_times = <<>>
    /\ ti = 0
    /\ DedupeIdle
    /\ MatcherIdle
    /\ ParserIdle
    /\ HandlerIdle
    /\ DownloadIdle

\* Lines 382-402.
FirstPass ==
    /\ pc = "first_pass"
    /\ instructions' = [k \in 1..Len(instructions) |->
            [instructions[k] EXCEPT !.raw_start = RawStart(instructions[k]),
                                    !.has_raw_start = TRUE]]
    /\ pc' = "second_pass"
    /\ UNCHANGED <<video_duration, known_times, ti, dedupe_vars, matcher_vars, parser_vars, handler_vars, download_vars>>

\* Lines 404-444.  A zero divisor raises ZeroDivisionError and ends the call.
SecondPass ==
    /\ pc = "second_pass"
    /\ known_times' = KnownTimes(instructions)
    /\ IF 0 \in SecondPassDivisors(instructions, KnownTimes(instructions))
       THEN /\ pc' = "ZeroDivisionError"
            /\ UNCHANGED instructions
       ELSE /\ instructions' = [k \in 1..Len(instructions) |->
                   [instructions[k] EXCEPT !.raw_start =
                       Some(FilledRawStart(instructions, KnownTimes(instructions), k, video_duration))]]
            /\ pc' = "sort"
    /\ UNCHANGED <<video_duration, ti, dedupe_vars, matcher_vars, parser_vars, handler_vars, download_vars>>

\* Line 448.
ThirdPassSort ==
    /\ pc = "sort"
    /\ instructions' = SortByStep(instructions)
    /\ ti' = 1
    /\ pc' = "third_pass"
    /\ UNCHANGED <<video_duration, known_times, dedupe_vars, matcher_vars, parser_vars, handler_vars, download_vars>>

\* Lines 450-474, one iteration.
ThirdPassStep ==
    /\ pc = "third_pass"
    /\ ti <= Len(instructions)
    /\ instructions' = [instructions EXCEPT ![ti].predicted_time =
            Some(PredictedTime(instructions, ti, video_duration))]
    /\ ti' = ti + 1
    /\ UNCHANGED <<pc, video_duration, known_times, dedupe_vars, matcher_vars, parser_vars, handler_vars, download_vars>>

\* Lines 476-481.
CleanUpSkipped ==
    /\ pc = "third_pass"
    /\ ti > Len(instructions)
    /\ pc' = "timer_done"
    /\ UNCHANGED <<instructions, video_duration, known_times, ti, dedupe_vars, matcher_vars, parser_vars, handler_vars, download_vars>>

CleanUp ==
    /\ pc = "third_pass"
    /\ ti > Len(instructions)
    /\ instructions' = [k \in 1..Len(instructions) |->
            [instructions[k] EXCEPT !.raw_start = None, !.has_raw_start = FALSE]]
    /\ pc' = "timer_done"
    /\ UNCHANGED <<video_duration, known_times, ti, dedupe_vars, matcher_vars, parser_vars, handler_vars, download_vars>>

TimerNext == FirstPass \/ SecondPass \/ ThirdPassSort \/ ThirdPassStep \/ CleanUp

SpecTimer == TimerInit /\ [][TimerNext]_vars

(***************************************************************************)
(* Text: str methods on sequences of one-character strings.                *)
(***************************************************************************)
IsSpace(c) == c \in {" ", "\n"}

\* s.strip()
strip(s) ==
    LET keep == {k \in 1..Len(s) : ~IsSpace(s[k])}
    IN  IF keep = {} THEN <<>>
        ELSE SubSeq(s, CHOOSE a \in keep : \A k \in keep : a <= k,
                       CHOOSE b \in keep : \A k \in keep : k <= b)

\* needle in hay
Contains(hay, needle) ==
    \E k \in 0..(Len(hay) - Len(needle)) : SubSeq(hay, k + 1, k + Len(needle)) = needle

\* s.split(sep) for a one-character sep: "" gives [""].
split(s, sep) ==
    LET at == SelectSeq([k \in 1..Len(s) |-> k], LAMBDA k : s[k] = sep)
        cut == <<0>> \o at \o <<Len(s) + 1>>
    IN  [k \in 1..(Len(at) + 1) |-> SubSeq(s, cut[k] + 1, cut[k + 1] - 1)]

\* sep.join(parts)
RECURSIVE join(_, _)
join(parts, sep) ==
    IF parts = <<>> THEN <<>>
    ELSE IF Len(parts) = 1 THEN parts[1]
    ELSE parts[1] \o <<sep>> \o join(Tail(parts), sep)

\* s.splitlines(): "" gives [], one trailing line break gives no empty last line.
splitlines(s) ==
    LET parts == split(s, "\n")
    IN  IF parts[Len(parts)] = <<>> THEN SubSeq(parts, 1, Len(parts) - 1) ELSE parts

(***************************************************************************)
(* webvtt Caption and Timestamp, as extractor.py uses them: start_time and *)
(* end_time are Timestamps, the start and end properties their strings,    *)
(* text joins the caption's lines and its setter splits them again.        *)
(***************************************************************************)
\* Timestamp.from_string of the "HH:MM:SS.mmm" that stands for ms milliseconds.
Timestamp(ms) ==
    [ hours |-> ms \div 3600000,
      minutes |-> (ms % 3600000) \div 60000,
      seconds |-> (ms % 60000) \div 1000,
      milliseconds |-> ms % 1000 ]

\* Lines 288-290, in milliseconds: timestamp.in_seconds() + timestamp.milliseconds / 1000.
ts_to_secs(timestamp) ==
    (timestamp.hours * 3600 + timestamp.minutes * 60 + timestamp.seconds) * 1000
        + timestamp.milliseconds

\* Lines 280-286 followed by the end setter's parse: total_seconds is given
\* in milliseconds, "{seconds:06.3f}" keeps the milliseconds.
seconds_to_timestamp(total_ms) ==
    LET hours == total_ms \div 3600000
        remaining == total_ms % 3600000
        minutes == remaining \div 60000
        seconds == remaining % 60000
    IN  [ hours |-> hours, minutes |-> minutes,
          seconds |-> seconds \div 1000, milliseconds |-> seconds % 1000 ]

\* Lines 272-278 applied to caption.start / caption.end, in milliseconds.
timestamp_to_seconds(timestamp) ==
    timestamp.hours * 3600000 + timestamp.minutes * 60000
        + timestamp.seconds * 1000 + timestamp.milliseconds

Caption(start_ms, end_ms, text) ==
    [ start_time |-> Timestamp(start_ms),
      end_time |-> Timestamp(end_ms),
      lines |-> splitlines(text) ]

\* caption.text
Text(caption) == join(caption.lines, "\n")

\* caption.text = value
SetText(caption, value) == [caption EXCEPT !.lines = splitlines(value)]

(***************************************************************************)
(* The captions a run may be handed.  An inverted caption (start after     *)
(* end) is input the function expects: lines 348-351 handle it.  No        *)
(* caption is inverted by exactly 0.15 s, where the float comparison of    *)
(* line 312 depends on the rounding of the two operands.                   *)
(***************************************************************************)
txt_the_quick == <<"t", "h", "e", " ", "q", "u", "i", "c", "k">>
txt_the_quick_brown_fox == <<"t", "h", "e", " ", "q", "u", "i", "c", "k", " ", "b", "r", "o", "w", "n", " ", "f", "o", "x">>
txt_abc == <<"a", "b", "c">>
txt_abc_xyz == <<"a", "b", "c", "\n", "x", " ", "y", " ", "z">>
txt_xyz_uv == <<"x", " ", "y", " ", "z", "\n", "u", " ", "v">>
txt_xyz == <<"x", " ", "y", " ", "z">>
txt_uv == <<"u", " ", "v">>
txt_pqr == <<"p", " ", "q", " ", "r">>
txt_blank == <<" ">>
txt_ab == <<"a", "b">>
txt_xyz_uvw == <<"x", " ", "y", " ", "z", "\n", "u", " ", "v", " ", "w">>
txt_uvw_pq == <<"u", " ", "v", " ", "w", "\n", "p", " ", "q">>

CueChoices ==
    {
      Caption(0, 500, txt_the_quick),
      Caption(400, 1200, txt_the_quick_brown_fox),
      Caption(0, 1000, txt_abc),
      Caption(1000, 2000, txt_abc_xyz),
      Caption(1500, 2500, txt_xyz_uv),
      Caption(2000, 2100, txt_xyz),
      Caption(2500, 2400, txt_uv),
      Caption(3000, 2000, txt_pqr),
      Caption(2600, 2700, txt_blank),
      Caption(0, 0, txt_ab),
      Caption(1000, 500, txt_abc),
      Caption(3600000, 3601000, txt_xyz_uvw),
      Caption(3601000, 3602000, txt_uvw_pq),
      Caption(4100, 4600, txt_pqr) }

(***************************************************************************)
(* VideoExtractor._dedupe_yt_captions                                      *)
(***************************************************************************)
\* Lines 309-314: start - end < 0.15 and the text is part of the pending text.
IsShortDuplicateByDuration(subtitle, previous) ==
    /\ ts_to_secs(subtitle.end_time) - ts_to_secs(subtitle.start_time) < 150
    /\ Contains(Text(previous), Text(subtitle))

IsShortDuplicate(subtitle, previous) ==
    /\ ts_to_secs(subtitle.start_time) - ts_to_secs(subtitle.end_time) < 150
    /\ Contains(Text(previous), Text(subtitle))

\* Lines 324-326.
IsSingleWord(last_lines) ==
    /\ Len(last_lines) = 1
    /\ Len(split(last_lines[1], " ")) < 2
    /\ Len(last_lines[1]) > 2

\* Lines 327-333: the text of the subtitle whose first line repeats the last
\* line of the pending caption.
TrimmedText(current_lines, singleword) ==
    IF singleword
    THEN current_lines[1] \o <<" ">> \o join(Tail(current_lines), "\n")
    ELSE join(Tail(current_lines), "\n")

\* Lines 336-340: the pending caption takes the short fragment.
AppendFragmentNoSpace(previous, subtitle) ==
    SetText([previous EXCEPT !.end_time = subtitle.end_time],
            Text(previous) \o Text(subtitle))

AppendFragment(previous, subtitle) ==
    LET title_text == IF Text(subtitle)[1] # " " THEN <<" ">> \o Text(subtitle)
                      ELSE Text(subtitle)
    IN  SetText([previous EXCEPT !.end_time = subtitle.end_time],
                Text(previous) \o title_text)

\* Lines 343-347.
BoundaryCorrectionNoFloor(caps, prev, j) ==
    IF ts_to_secs(caps[j].start_time) <= ts_to_secs(caps[prev].end_time)
    THEN [caps EXCEPT ![prev].end_time =
            seconds_to_timestamp(Max(ts_to_secs(caps[j].start_time), 0))]
    ELSE caps

BoundaryCorrection(caps, prev, j) ==
    IF ts_to_secs(caps[j].start_time) <= ts_to_secs(caps[prev].end_time)
    THEN [caps EXCEPT ![prev].end_time =
            seconds_to_timestamp(Max(ts_to_secs(caps[j].start_time) - 1, 0))]
    ELSE caps

\* Lines 348-351.
SwapInverted(caps, j) ==
    IF ts_to_secs(caps[j].start_time) >= ts_to_secs(caps[j].end_time)
    THEN [caps EXCEPT ![j].start_time = caps[j].end_time,
                      ![j].end_time = caps[j].start_time]
    ELSE caps

\* What one iteration leaves: the captions, the pending one and what it yields.
Outcome(caps, prev, out) == [caps |-> caps, prev |-> prev, out |-> out]

\* Lines 343-355.
AdvanceAlwaysYield(caps, prev, j, singleword) ==
    Outcome(SwapInverted(BoundaryCorrection(caps, prev, j), j), j, <<prev>>)

Advance(caps, prev, j, singleword) ==
    Outcome(SwapInverted(BoundaryCorrection(caps, prev, j), j), j,
            IF singleword THEN <<>> ELSE <<prev>>)

\* Lines 336-341 altered: the fragment is yielded as a caption of its own.
FragmentYieldsBoth(caps, prev, j) ==
    Outcome(caps, j, <<prev, j>>)

FragmentOutcome(caps, prev, j) ==
    Outcome([caps EXCEPT ![prev] = AppendFragment(caps[prev], caps[j])], prev, <<>>)

\* Lines 299-355: the body of the loop for subtitle j with pending caption prev.
DedupeOne(caps, prev, j) ==
    IF prev = 0 THEN Outcome(caps, j, <<>>)
    ELSE
      LET caps1 == [caps EXCEPT ![j] = SetText(caps[j], strip(Text(caps[j])))]
          text == Text(caps1[j])
      IN  IF Len(text) = 0 THEN Outcome(caps1, prev, <<>>)
          ELSE IF IsShortDuplicate(caps1[j], caps1[prev])
          THEN Outcome([caps1 EXCEPT ![prev].end_time = caps1[j].end_time], prev, <<>>)
          ELSE
            LET current_lines == split(text, "\n")
                last_lines == split(Text(caps1[prev]), "\n")
            IN  IF current_lines[1] = last_lines[Len(last_lines)]
                THEN LET singleword == IsSingleWord(last_lines)
                         caps2 == [caps1 EXCEPT ![j] =
                                     SetText(caps1[j], TrimmedText(current_lines, singleword))]
                     IN  Advance(caps2, prev, j, singleword)
                ELSE IF Len(split(text, " ")) <= 2
                THEN FragmentOutcome(caps1, prev, j)
                ELSE Advance(caps1, prev, j, FALSE)

\* The captions a finished run yielded, in order.
Output == [k \in 1..Len(yielded) |-> captions[yielded[k]]]

\* Lines 377-385: the segment parse_captions makes of a caption.
Segment(caption) ==
    [ startTime |-> timestamp_to_seconds(caption.start_time),
      endTime |-> timestamp_to_seconds(caption.end_time),
      text |-> strip([k \in 1..Len(Text(caption)) |->
                        IF Text(caption)[k] = "\n" THEN " " ELSE Text(caption)[k]]) ]

Segments(caps) == [k \in 1..Len(caps) |-> Segment(caps[k])]

\* Lines 272-278 and 387-388: start_time and prev_end are doubles, and so is
\* their difference.  These are the pairs <<start, prev_end>> of times of the
\* model, in milliseconds, whose double difference is below the exact one;
\* for every other pair that is a whole number of seconds apart it is exact.
DoubleDifferenceRoundsDown == {<<4100, 2100>>}

\* time_diff >= n, n in milliseconds a whole number of seconds.
TimeDiffAtLeast(start_time, prev_end, n) ==
    IF <<start_time, prev_end>> \in DoubleDifferenceRoundsDown
    THEN start_time - prev_end > n
    ELSE start_time - prev_end >= n

\* Lines 390-395.
Separator(start_time, prev_end) ==
    IF TimeDiffAtLeast(start_time, prev_end, 2000) THEN <<"\n", "\n">>
    ELSE IF TimeDiffAtLeast(start_time, prev_end, 1000) THEN <<"\n">>
    ELSE <<" ">>

\* Lines 377-397: result after the first n captions.
RECURSIVE ResultUpTo(_, _)
ResultUpTo(caps, n) ==
    IF n = 0 THEN <<>>
    ELSE IF n = 1 THEN Segment(caps[1]).text
    ELSE ResultUpTo(caps, n - 1)
            \o Separator(Segment(caps[n]).startTime, Segment(caps[n - 1]).endTime)
            \o Segment(caps[n]).text

\* Line 400: " ".join(re.split(" +", result)).
CollapseSpaces(s) ==
    SelectSeq([k \in 1..Len(s) |-> IF s[k] = " " /\ k > 1 /\ s[k - 1] = " " THEN "" ELSE s[k]],
              LAMBDA c : c # "")

\* Lines 377-402: the plain text parse_captions returns.
Transcript(caps) == CollapseSpaces(ResultUpTo(caps, Len(caps)))

DedupeInit ==
    /\ pc = "dedupe"
    /\ \E n \in 0..MaxCues : captions \in [1..n -> CueChoices]
    /\ subs_input = captions
    /\ previous_subtitle = 0
    /\ di = 1
    /\ yielded = <<>>
    /\ run = 1
    /\ first_output = <<>>
    /\ TimerIdle
    /\ MatcherIdle
    /\ ParserIdle
    /\ HandlerIdle
    /\ DownloadIdle

\* Lines 299-355: one iteration of the loop.
DedupeStep ==
    /\ pc = "dedupe"
    /\ di <= Len(captions)
    /\ LET o == DedupeOne(captions, previous_subtitle, di)
       IN  /\ captions' = o.caps
           /\ previous_subtitle' = o.prev
           /\ yielded' = yielded \o o.out
    /\ di' = di + 1
    /\ UNCHANGED <<pc, subs_input, run, first_output, timer_vars, matcher_vars, parser_vars, handler_vars, download_vars>>

\* Lines 357-358: the input is exhausted.
DedupeFinish ==
    /\ pc = "dedupe"
    /\ di > Len(captions)
    /\ yielded' = IF previous_subtitle # 0 THEN Append(yielded, previous_subtitle)
                  ELSE yielded
    /\ pc' = "deduped"
    /\ UNCHANGED <<captions, subs_input, previous_subtitle, di, run, first_output, timer_vars, matcher_vars, parser_vars, handler_vars, download_vars>>

\* The output of the first run is handed to a second run.
DedupeAgain ==
    /\ pc = "deduped"
    /\ run = 1
    /\ first_output' = Output
    /\ captions' = Output
    /\ previous_subtitle' = 0
    /\ di' = 1
    /\ yielded' = <<>>
    /\ run' = 2
    /\ pc' = "dedupe"
    /\ UNCHANGED <<subs_input, timer_vars, matcher_vars, parser_vars, handler_vars, download_vars>>

DedupeNext == DedupeStep \/ DedupeFinish \/ DedupeAgain

SpecDedupe == DedupeInit /\ [][DedupeNext]_vars

(***************************************************************************)
(* normalize_text, stem_keyword and the libraries they call.               *)
(***************************************************************************)
\* The characters \w matches, among those the model uses.
IsWordChar(c) ==
    \/ \E k \in 1..Len(LowerLetters) : LowerLetters[k] = c \/ UpperLetters[k] = c
    \/ c \in {"0", "1", "2", "3", "4", "5", "6", "7", "8", "9", "_"}

\* s.split(): the runs of non-whitespace characters.
RECURSIVE split_ws(_)
split_ws(s) ==
    LET t == strip(s)
    IN  IF t = <<>> THEN <<>>
        ELSE LET spaces == {k \in 1..Len(t) : IsSpace(t[k])}
             IN  IF spaces = {} THEN <<t>>
                 ELSE LET f == CHOOSE a \in spaces : \A k \in spaces : a <= k
                      IN  <<SubSeq(t, 1, f - 1)>> \o split_ws(SubSeq(t, f + 1, Len(t)))

\* snowballstemmer.stemmer('english') on the words of the model: of these
\* only "onions", "chopped", "chops", "fry" and "stir-fry" change (a final y
\* after a consonant becomes i).
StemWord(w) ==
    CASE w = <<"o", "n", "i", "o", "n", "s">> -> <<"o", "n", "i", "o", "n">>
      [] w = <<"f", "r", "y">> -> <<"f", "r", "i">>
      [] w = <<"s", "t", "i", "r", "-", "f", "r", "y">> -> <<"s", "t", "i", "r", "-", "f", "r", "i">>
      [] w = <<"c", "h", "o", "p", "p", "e", "d">> -> <<"c", "h", "o", "p">>
      [] w = <<"c", "h", "o", "p", "s">> -> <<"c", "h", "o", "p">>
      [] OTHER -> w

stemWords(words) == [k \in 1..Len(words) |-> StemWord(words[k])]

\* Lines 48-57.
normalize_text(text) ==
    LET lowered == lower(text)
        cleaned == [k \in 1..Len(lowered) |->
                      IF IsWordChar(lowered[k]) \/ IsSpace(lowered[k])
                      THEN lowered[k] ELSE " "]
    IN  join(stemWords(split_ws(cleaned)), " ")

\* Lines 60-64.
stem_keyword(keyword) == join(stemWords(split_ws(lower(keyword))), " ")

\* The length of the longest common subsequence of a and b, row by row.
RECURSIVE LcsRow(_, _, _, _)
LcsRow(prev, c, b, acc) ==
    IF Len(acc) = Len(b) + 1 THEN acc
    ELSE LET j == Len(acc)
         IN  LcsRow(prev, c, b,
                    Append(acc, IF c = b[j] THEN prev[j] + 1
                                ELSE Max(prev[j + 1], acc[j])))

RECURSIVE LcsFrom(_, _, _, _)
LcsFrom(a, b, i, prev) ==
    IF i > Len(a) THEN prev[Len(b) + 1]
    ELSE LcsFrom(a, b, i + 1, LcsRow(prev, a[i], b, <<0>>))

Lcs(a, b) == LcsFrom(a, b, 1, [j \in 1..(Len(b) + 1) |-> 0])

\* rapidfuzz fuzz.ratio(a, b) >= threshold: the ratio is
\* 100 * 2 * Lcs(a, b) / (len(a) + len(b)), and 100 for two empty strings.
RatioAtLeast(a, b, threshold) ==
    IF Len(a) + Len(b) = 0 THEN TRUE
    ELSE 200 * Lcs(a, b) >= threshold * (Len(a) + Len(b))

\* rapidfuzz fuzz.partial_ratio(a, b) >= threshold: the best fuzz.ratio of
\* the shorter string against a window of the longer one: its prefixes
\* shorter than the shorter string, its substrings as long as it and its
\* suffixes no longer than it.
PartialRatioAtLeast(a, b, threshold) ==
    LET short == IF Len(a) <= Len(b) THEN a ELSE b
        long == IF Len(a) <= Len(b) THEN b ELSE a
        m == Len(short)
        n == Len(long)
    IN  IF m = 0 THEN n = 0
        ELSE \/ \E i \in 1..(m - 1) : RatioAtLeast(short, SubSeq(long, 1, i), threshold)
             \/ \E i \in 0..(n - m) : RatioAtLeast(short, SubSeq(long, i + 1, i + m), threshold)
             \/ \E i \in (n - m + 1)..(n - 1) :
                    i >= 0 /\ RatioAtLeast(short, SubSeq(long, i + 1, n), threshold)

(***************************************************************************)
(* search_vtt_for_keywords                                                 *)
(***************************************************************************)
STOPWORDS ==
    { <<"f", "o", "r", "m">>,
      <<"p", "l", "a", "c", "e">>,
      <<"p", "u", "t">>,
      <<"a", "d", "d">>,
      <<"m", "a", "k", "e">>,
      <<"t", "a", "k", "e">>,
      <<"g", "e", "t">>,
      <<"u", "s", "e">>,
      <<"s", "e", "t">>,
      <<"t", "u", "r", "n">>,
      <<"l", "e", "t">>,
      <<"g", "i", "v", "e">>,
      <<"k", "e", "e", "p">>,
      <<"b", "r", "i", "n", "g">>,
      <<"s", "t", "a", "r", "t">>,
      <<"t", "r", "y">>,
      <<"w", "a", "n", "t">>,
      <<"t", "o", "p">>,
      <<"s", "i", "d", "e">>,
      <<"b", "i", "t">>,
      <<"w", "a", "y">>,
      <<"t", "i", "m", "e">>,
      <<"t", "h", "i", "n", "g">>,
      <<"p", "a", "r", "t">>,
      <<"e", "n", "d">> }

fuzzy_threshold == 80
DedupWindow == 3
ContextLimit == 100
ContextRadius == 40

\* Lines 101-106: a cue of parse_vtt_cues; start_seconds in milliseconds.
Cue(start_ms, text) ==
    [start_seconds |-> start_ms, text |-> text, normalized |-> normalize_text(text)]

kw_add == <<"a", "d", "d">>
kw_Add == <<"A", "d", "d">>
kw_Onion == <<"O", "n", "i", "o", "n">>
kw_chopped == <<"c", "h", "o", "p", "p", "e", "d">>
kw_red_onion == <<"r", "e", "d", " ", "o", "n", "i", "o", "n">>
kw_garlic == <<"g", "a", "r", "l", "i", "c">>
kw_stir_fry == <<"s", "t", "i", "r", "-", "f", "r", "y">>

KeywordChoices ==
    {kw_add, kw_Add, kw_onion, kw_Onion, kw_chop, kw_chopped, kw_red_onion, kw_garlic,
     kw_stir_fry}

\* The cues of the transcripts, in the order of the file.
TranscriptCues ==
    << Cue(10000, <<"A", "d", "d", " ", "t", "h", "e", " ", "o", "n", "i", "o", "n">>),
       Cue(11000, <<"c", "h", "o", "p", " ", "t", "h", "e", " ", "o", "n", "i", "o", "n", "s">>),
       Cue(13999, <<"C", "h", "o", "p", "p", "e", "d", " ", "r", "e", "d", " ", "o", "n", "i", "o", "n", "s", "!">>),
       Cue(14000, <<"o", "n", "i", "o", "n", " ", "a", "n", "d", " ", "g", "a", "r", "l", "i", "c", "k">>),
       Cue(17500, <<"t", "h", "e", " ", "r", "e", "d", " ", "o", "n", "i", "n">>),
       Cue(20000, <<"c", "h", "i", "p", " ", "c", "h", "i", "p">>) >>

\* Line 125: the cue lists of the transcripts: the subsequences of
\* TranscriptCues and a transcript of the one cue "stir-fry".
VttChoices ==
    { SelectSeq(TranscriptCues, LAMBDA c : c \in keep) :
        keep \in SUBSET {TranscriptCues[k] : k \in 1..Len(TranscriptCues)} }
    \cup { << Cue(30000, kw_stir_fry) >> }

\* Lines 132-134.
IsStopwordCaseSensitive(keyword) == keyword \in STOPWORDS

IsStopword(keyword) == lower(keyword) \in STOPWORDS

\* Lines 145-166: found.
Found(keyword, cue) ==
    LET stemmed_keyword == stem_keyword(keyword)
        keyword_words == split_ws(stemmed_keyword)
        cue_words == split_ws(cue.normalized)
    IN  IF Len(keyword_words) = 1
        THEN \E k \in 1..Len(cue_words) :
                \/ cue_words[k] = stemmed_keyword
                \/ RatioAtLeast(cue_words[k], stemmed_keyword, fuzzy_threshold)
        ELSE \/ Contains(cue.normalized, stemmed_keyword)
             \/ PartialRatioAtLeast(stemmed_keyword, cue.normalized, fuzzy_threshold)

\* Line 169: int(cue['start_seconds']).
TimestampOf(cue) == cue.start_seconds \div 1000

\* Lines 172-175.
IsDuplicateStrictWindow(timestamp, seen) ==
    \E k \in 1..Len(seen) : Abs(timestamp - seen[k]) < DedupWindow

IsDuplicate(timestamp, seen) ==
    \E k \in 1..Len(seen) : Abs(timestamp - seen[k]) <= DedupWindow

\* s.find(sub): the first index (from 0) of sub in s, -1 if there is none.
find(s, sub) ==
    LET at == {k \in 0..(Len(s) - Len(sub)) : SubSeq(s, k + 1, k + Len(sub)) = sub}
    IN  IF at = {} THEN -1 ELSE CHOOSE a \in at : \A k \in at : a <= k

Ellipsis == <<".", ".", ".">>

\* Lines 181-200.
Context(cs, i, keyword) ==
    LET context_parts ==
            (IF i > 1 THEN <<cs[i - 1].text>> ELSE <<>>)
            \o <<cs[i].text>>
            \o (IF i < Len(cs) THEN <<cs[i + 1].text>> ELSE <<>>)
        context == join(context_parts, " ")
        idx == find(lower(context), lower(keyword))
        start == Max(0, idx - ContextRadius)
        end == Min(Len(context), idx + Len(keyword) + ContextRadius)
    IN  IF Len(context) <= ContextLimit THEN context
        ELSE IF idx = -1 THEN SubSeq(context, 1, ContextLimit) \o Ellipsis
        ELSE (IF start > 0 THEN Ellipsis ELSE <<>>)
             \o SubSeq(context, start + 1, end)
             \o (IF end < Len(context) THEN Ellipsis ELSE <<>>)

\* Lines 202-206.
Match(keyword, timestamp, context) ==
    [keyword |-> keyword, timestamp_seconds |-> timestamp, context |-> context]

\* Lines 208-209 left out: the matches stay in the order they were found.
SortByTimestampSkipped(ms) == ms

\* Line 209: matches.sort(key=lambda x: x['timestamp_seconds']), a stable sort.
RECURSIVE SortByTimestamp(_)
SortByTimestamp(ms) ==
    IF Len(ms) <= 1 THEN ms
    ELSE LET sorted == SortByTimestamp(SubSeq(ms, 1, Len(ms) - 1))
             x == ms[Len(ms)]
         IN  SelectSeq(sorted, LAMBDA y : y.timestamp_seconds <= x.timestamp_seconds)
             \o <<x>>
             \o SelectSeq(sorted, LAMBDA y : y.timestamp_seconds > x.timestamp_seconds)

\* seen_timestamps[key], and seen_timestamps with key set to value.
HasKey(dict, key) == \E k \in 1..Len(dict) : dict[k].key = key
Get(dict, key) == dict[CHOOSE k \in 1..Len(dict) : dict[k].key = key].value
Put(dict, key, value) ==
    IF HasKey(dict, key)
    THEN [k \in 1..Len(dict) |->
            IF dict[k].key = key THEN [key |-> key, value |-> value] ELSE dict[k]]
    ELSE Append(dict, [key |-> key, value |-> value])

MatcherInit ==
    /\ pc = "keyword"
    /\ cues \in VttChoices
    /\ \E n \in 0..MaxKeywords : keywords \in [1..n -> KeywordChoices]
    /\ matches = <<>>
    /\ seen_timestamps = <<>>
    /\ ki = 1
    /\ ci = 0
    /\ TimerIdle
    /\ DedupeIdle
    /\ ParserIdle
    /\ HandlerIdle
    /\ DownloadIdle

\* Lines 131-134: the keyword is a stopword.
KeywordSkip ==
    /\ pc = "keyword"
    /\ ki <= Len(keywords)
    /\ IsStopword(keywords[ki])
    /\ ki' = ki + 1
    /\ UNCHANGED <<pc, cues, keywords, matches, seen_timestamps, ci, timer_vars, dedupe_vars, parser_vars, handler_vars, download_vars>>

\* Lines 136-141: the keyword is searched for.
KeywordStart ==
    /\ pc = "keyword"
    /\ ki <= Len(keywords)
    /\ ~IsStopword(keywords[ki])
    /\ seen_timestamps' =
          IF HasKey(seen_timestamps, lower(keywords[ki])) THEN seen_timestamps
          ELSE Put(seen_timestamps, lower(keywords[ki]), <<>>)
    /\ ci' = 1
    /\ pc' = "cue"
    /\ UNCHANGED <<cues, keywords, matches, ki, timer_vars, dedupe_vars, parser_vars, handler_vars, download_vars>>

\* Lines 143-206: one cue for the current keyword.
CueStep ==
    /\ pc = "cue"
    /\ ci <= Len(cues)
    /\ LET keyword == keywords[ki]
           keyword_lower == lower(keyword)
           timestamp == TimestampOf(cues[ci])
           seen == Get(seen_timestamps, keyword_lower)
       IN  IF Found(keyword, cues[ci]) /\ ~IsDuplicate(timestamp, seen)
           THEN /\ seen_timestamps' = Put(seen_timestamps, keyword_lower, Append(seen, timestamp))
                /\ matches' = Append(matches, Match(keyword, timestamp, Context(cues, ci, keyword)))
           ELSE UNCHANGED <<seen_timestamps, matches>>
    /\ ci' = ci + 1
    /\ UNCHANGED <<pc, cues, keywords, ki, timer_vars, dedupe_vars, parser_vars, handler_vars, download_vars>>

\* Line 143: the cues are exhausted, on to the next keyword.
CueLoopEnd ==
    /\ pc = "cue"
    /\ ci > Len(cues)
    /\ ki' = ki + 1
    /\ pc' = "keyword"
    /\ UNCHANGED <<cues, keywords, matches, seen_timestamps, ci, timer_vars, dedupe_vars, parser_vars, handler_vars, download_vars>>

\* Lines 208-211.
SortMatches ==
    /\ pc = "keyword"
    /\ ki > Len(keywords)
    /\ matches' = SortByTimestamp(matches)
    /\ pc' = "searched"
    /\ UNCHANGED <<cues, keywords, seen_timestamps, ki, ci, timer_vars, dedupe_vars, parser_vars, handler_vars, download_vars>>

MatcherNext == KeywordSkip \/ KeywordStart \/ CueStep \/ CueLoopEnd \/ SortMatches

SpecMatcher == MatcherInit /\ [][MatcherNext]_vars

(***************************************************************************)
(* parse_vtt_cues (generate_recipes.py lines 67-110).  The content is the  *)
(* list of its lines, vtt_content.split('\n').                             *)
(***************************************************************************)
MaxLines == 4

DigitChars == <<"0", "1", "2", "3", "4", "5", "6", "7", "8", "9">>
IsDigit(c) == \E k \in 1..Len(DigitChars) : DigitChars[k] = c
DigitValue(c) == (CHOOSE k \in 1..Len(DigitChars) : DigitChars[k] = c) - 1

\* r'\d{2}:\d{2}:\d{2}\.\d{3}' at position p of s.
MatchesTimeAt(s, p) ==
    /\ p >= 1
    /\ Len(s) >= p + 11
    /\ \A k \in {0, 1, 3, 4, 6, 7, 9, 10, 11} : IsDigit(s[p + k])
    /\ s[p + 2] = ":"
    /\ s[p + 5] = ":"
    /\ s[p + 8] = "."

\* r'\s*' from position p: the position of the first character that is not
\* white space, Len(s) + 1 when there is none.
SkipSpaces(s, p) ==
    LET rest == {k \in p..Len(s) : ~IsSpace(s[k])}
    IN  IF rest = {} THEN Len(s) + 1 ELSE CHOOSE a \in rest : \A k \in rest : a <= k

\* Line 81: re.match of the cue timing pattern at the start of the line.
TimestampMatch(line) ==
    /\ MatchesTimeAt(line, 1)
    /\ LET a == SkipSpaces(line, 13)
       IN  /\ Len(line) >= a + 2
           /\ SubSeq(line, a, a + 2) = <<"-", "-", ">">>
           /\ MatchesTimeAt(line, SkipSpaces(line, a + 3))

\* Lines 83-86: the start of the cue, in milliseconds.
StartSeconds(line) ==
    LET two(p) == 10 * DigitValue(line[p]) + DigitValue(line[p + 1])
        millis == 100 * DigitValue(line[10]) + 10 * DigitValue(line[11]) + DigitValue(line[12])
    IN  (two(1) * 3600 + two(4) * 60 + two(7)) * 1000 + millis

\* Line 90: the index of the line that ends the text of the cue whose timing
\* line is at index i: the first blank or time line after it, or the end.
TextEnd(ls, i) ==
    LET stops == {j \in (i + 1)..Len(ls) :
                     strip(ls[j]) = <<>> \/ MatchesTimeAt(strip(ls[j]), 1)}
    IN  IF stops = {} THEN Len(ls) + 1 ELSE CHOOSE a \in stops : \A j \in stops : a <= j

\* Line 97: re.sub(r'<[^>]+>', '', raw_text).
RECURSIVE RemoveTagsFrom(_, _)
RemoveTagsFrom(s, p) ==
    IF p > Len(s) THEN <<>>
    ELSE LET closes == {q \in (p + 1)..Len(s) : s[q] = ">"}
         IN  IF s[p] = "<" /\ closes # {} /\ (\A q \in closes : q >= p + 2)
             THEN RemoveTagsFrom(s, 1 + CHOOSE a \in closes : \A q \in closes : a <= q)
             ELSE <<s[p]>> \o RemoveTagsFrom(s, p + 1)

RemoveTags(s) == RemoveTagsFrom(s, 1)

\* Lines 95-98.
CleanText(text_lines) == join(split_ws(RemoveTags(join(text_lines, " "))), " ")

\* Lines 88-106: the cues after the timing line at index i was handled.
CuesAfter(cs, ls, i) ==
    LET text_lines == [k \in 1..(TextEnd(ls, i) - i - 1) |-> strip(ls[i + k])]
        clean_text == CleanText(text_lines)
    IN  IF text_lines # <<>> /\ clean_text # <<>>
        THEN Append(cs, Cue(StartSeconds(strip(ls[i])), clean_text))
        ELSE cs

\* The lines a content is made of.
ln_header == <<"W", "E", "B", "V", "T", "T">>
ln_blank == <<>>
ln_time_10 == <<"0", "0", ":", "0", "0", ":", "1", "0", ".", "0", "0", "0", " ", "-", "-", ">", " ", "0", "0", ":", "0", "0", ":", "1", "1", ".", "5", "0", "0">>
ln_time_14 == <<"0", "0", ":", "0", "0", ":", "1", "3", ".", "9", "9", "9", "-", "-", ">", "0", "0", ":", "0", "0", ":", "1", "5", ".", "0", "0", "0", " ", "a", "l", "i", "g", "n", ":", "s", "t", "a", "r", "t">>
ln_time_short == <<"0", ":", "1", "0", ".", "0", "0", "0", " ", "-", "-", ">", " ", "0", ":", "1", "1", ".", "5", "0", "0">>
ln_time_only == <<"0", "0", ":", "0", "0", ":", "2", "0", ".", "0", "0", "0">>
ln_text_chop == <<"c", "h", "o", "p", " ", "t", "h", "e", " ", "o", "n", "i", "o", "n", "s">>
ln_text_tags == <<" ", "<", "c", ">", "A", "d", "d", "<", "/", "c", ">", " ", " ", "t", "h", "e", " ", "<", "b", ">", "o", "n", "i", "o", "n">>
ln_text_tag_only == <<"<", "c", ">", "<", "/", "c", ">">>

LineChoices ==
    {ln_header, ln_blank, ln_time_10, ln_time_14, ln_time_short, ln_time_only, ln_text_chop, ln_text_tags, ln_text_tag_only}

ParserInit ==
    /\ pc = "parse"
    /\ \E n \in 1..MaxLines : vtt_lines \in [1..n -> LineChoices]
    /\ li = 1
    /\ parsed_cues = <<>>
    /\ TimerIdle
    /\ DedupeIdle
    /\ MatcherIdle
    /\ HandlerIdle
    /\ DownloadIdle

\* Lines 77-106: the line is a cue timing line.
ParseCue ==
    /\ pc = "parse"
    /\ li <= Len(vtt_lines)
    /\ TimestampMatch(strip(vtt_lines[li]))
    /\ parsed_cues' = CuesAfter(parsed_cues, vtt_lines, li)
    /\ li' = TextEnd(vtt_lines, li)
    /\ UNCHANGED <<pc, vtt_lines, timer_vars, dedupe_vars, matcher_vars, handler_vars, download_vars>>

\* Lines 107-108: any other line is passed over.
ParseSkip ==
    /\ pc = "parse"
    /\ li <= Len(vtt_lines)
    /\ ~TimestampMatch(strip(vtt_lines[li]))
    /\ li' = li + 1
    /\ UNCHANGED <<pc, vtt_lines, parsed_cues, timer_vars, dedupe_vars, matcher_vars, handler_vars, download_vars>>

\* Line 110: return cues.
ParseReturn ==
    /\ pc = "parse"
    /\ li > Len(vtt_lines)
    /\ pc' = "parsed"
    /\ UNCHANGED <<vtt_lines, li, parsed_cues, timer_vars, dedupe_vars, matcher_vars, handler_vars, download_vars>>

ParserNext == ParseCue \/ ParseSkip \/ ParseReturn

SpecParser == ParserInit /\ [][ParserNext]_vars

(***************************************************************************)
(* lambda_handler (handler.py lines 122-257) with check_cache and          *)
(* save_to_cache (lines 79-107).  The cache is the S3 objects              *)
(* combined/<video_id>.json.gz; the handler is invoked again and again on  *)
(* the cache its earlier invocations left.                                 *)
(***************************************************************************)
Videos == {"v1", "v2"}

\* What a video's captions may be when it is extracted: None for no English
\* captions, else the transcript dict extract() builds.
Transcripts == {None, Some("t1"), Some("t2")}

\* A videoUrl: a YouTube URL of a video, or a URL that is not one.
YoutubeUrl(v) == [site |-> "youtube", id |-> v]
OtherUrl == [site |-> "other", id |-> ""]

\* extractor.py lines 95-101.
validate_youtube_url(url) == url.site = "youtube"

\* Line 159: YoutubeIE.extract_id(video_url).
extract_id(url) == url.id

\* The requests: a body that is not JSON; a JSON object without videoUrl or
\* with one, whose "options" is null, absent ({}), or an object with
\* skipCache false or true.
OptionsChoices == {"null", "absent", "skip_false", "skip_true"}

Events ==
    {[body |-> "malformed", videoUrl |-> None, options |-> "absent"]}
        \cup [body : {"json"},
              videoUrl : {None, Some(OtherUrl)} \cup {Some(YoutubeUrl(v)) : v \in Videos},
              options : OptionsChoices]

\* Line 163: options.get("skipCache", False).
SkipCache(options) == options = "skip_true"

\* Lines 96-107 and 83-85: the object save_to_cache puts and what check_cache
\* makes of it.
gzip_json(data) == [content_encoding |-> "gzip", json |-> data]
gunzip_json(object) == object.json

\* Lines 79-93: check_cache returns the stored data when get_object succeeds
\* ("ok"), None for NoSuchKey and for any other failure.
check_cache(objects, video_id, read) ==
    IF read = "ok" THEN Some(gunzip_json(Val(objects[video_id]))) ELSE None

\* Line 201: not result.get("transcript") is false.
HasTranscriptAlways(extracted) == TRUE

HasTranscript(extracted) == ~IsNone(extracted.transcript)

\* Lines 216-219.
CacheData(extracted) ==
    [metadata |-> extracted.metadata, transcript |-> extracted.transcript]

\* Lines 110-119 and the bodies of the responses.
Failure(status_code, error) ==
    [statusCode |-> status_code, success |-> FALSE, error |-> error,
     cached |-> None, data |-> None]

Success(is_cached, data) ==
    [statusCode |-> 200, success |-> TRUE, error |-> None,
     cached |-> Some(is_cached), data |-> Some(data)]

VideoId == extract_id(Val(event.videoUrl))

HandlerInit ==
    /\ pc = "idle"
    /\ cache = [v \in Videos |-> None]
    /\ event = None
    /\ result = None
    /\ http_response = None
    /\ extract_calls = 0
    /\ s3_read = "none"
    /\ cache_at_entry = [v \in Videos |-> None]
    /\ TimerIdle
    /\ DedupeIdle
    /\ MatcherIdle
    /\ ParserIdle
    /\ DownloadIdle

\* Line 122: the handler is invoked with a request.
Invoke ==
    /\ pc \in {"idle", "responded"}
    /\ event' \in Events
    /\ cache_at_entry' = cache
    /\ result' = None
    /\ http_response' = None
    /\ extract_calls' = 0
    /\ s3_read' = "none"
    /\ pc' = "parse_request"
    /\ UNCHANGED <<cache, timer_vars, dedupe_vars, matcher_vars, parser_vars, download_vars>>

\* Lines 143-163 and 235-257 for a request that does not get to the cache check:
\* json.loads raises, videoUrl is missing or no YouTube URL, or options is
\* null and options.get raises AttributeError.
RejectRequest ==
    /\ pc = "parse_request"
    /\ \/ /\ event.body = "malformed"
          /\ http_response' = Some(Failure(500, "INTERNAL_ERROR"))
       \/ /\ event.body = "json"
          /\ IsNone(event.videoUrl)
          /\ http_response' = Some(Failure(400, "MISSING_URL"))
       \/ /\ event.body = "json"
          /\ ~IsNone(event.videoUrl)
          /\ ~validate_youtube_url(Val(event.videoUrl))
          /\ http_response' = Some(Failure(400, "INVALID_URL"))
       \/ /\ event.body = "json"
          /\ ~IsNone(event.videoUrl)
          /\ validate_youtube_url(Val(event.videoUrl))
          /\ event.options = "null"
          /\ http_response' = Some(Failure(500, "INTERNAL_ERROR"))
    /\ pc' = "responded"
    /\ UNCHANGED <<cache, event, result, extract_calls, s3_read, cache_at_entry,
                   timer_vars, dedupe_vars, matcher_vars, parser_vars, download_vars>>

\* Lines 143-163 for a valid request.
AcceptRequest ==
    /\ pc = "parse_request"
    /\ event.body = "json"
    /\ ~IsNone(event.videoUrl)
    /\ validate_youtube_url(Val(event.videoUrl))
    /\ event.options # "null"
    /\ pc' = IF SkipCache(event.options) THEN "extract" ELSE "check_cache"
    /\ UNCHANGED <<cache, event, result, http_response, extract_calls, s3_read,
                   cache_at_entry, timer_vars, dedupe_vars, matcher_vars, parser_vars, download_vars>>

\* Lines 163-176 with check_cache: get_object succeeds only for an object
\* that exists, fails with NoSuchKey only for one that does not, and may
\* fail otherwise for either.
CheckCache ==
    /\ pc = "check_cache"
    /\ \E read \in {"ok", "NoSuchKey", "failed"} :
          /\ read = "ok" => ~IsNone(cache[VideoId])
          /\ read = "NoSuchKey" => IsNone(cache[VideoId])
          /\ s3_read' = read
          /\ LET cached == check_cache(cache, VideoId, read)
             IN  IF ~IsNone(cached)
                 THEN /\ http_response' = Some(Success(TRUE, Val(cached)))
                      /\ pc' = "responded"
                 ELSE /\ http_response' = http_response
                      /\ pc' = "extract"
    /\ UNCHANGED <<cache, event, result, extract_calls, cache_at_entry,
                   timer_vars, dedupe_vars, matcher_vars, parser_vars, download_vars>>

\* Lines 178-198 and 235-243: extractor.extract raises.
ExtractFails ==
    /\ pc = "extract"
    /\ extract_calls' = extract_calls + 1
    /\ http_response' = Some(Failure(500, "EXTRACTION_FAILED"))
    /\ pc' = "responded"
    /\ UNCHANGED <<cache, event, result, s3_read, cache_at_entry,
                   timer_vars, dedupe_vars, matcher_vars, parser_vars, download_vars>>

\* Lines 178-213: extractor.extract returns; without a transcript the
\* response is NO_CAPTIONS.
ExtractReturns ==
    /\ pc = "extract"
    /\ extract_calls' = extract_calls + 1
    /\ \E t \in Transcripts :
          LET extracted == [metadata |-> VideoId, transcript |-> t]
          IN  /\ result' = Some(extracted)
              /\ IF HasTranscript(extracted)
                 THEN /\ pc' = "save"
                      /\ http_response' = http_response
                 ELSE /\ pc' = "responded"
                      /\ http_response' = Some(Failure(404, "NO_CAPTIONS"))
    /\ UNCHANGED <<cache, event, s3_read, cache_at_entry,
                   timer_vars, dedupe_vars, matcher_vars, parser_vars, download_vars>>

\* Lines 215-233: save_to_cache puts the object and the data is returned.
SaveToCache ==
    /\ pc = "save"
    /\ cache' = [cache EXCEPT ![VideoId] = Some(gzip_json(CacheData(Val(result))))]
    /\ http_response' = Some(Success(FALSE, CacheData(Val(result))))
    /\ pc' = "responded"
    /\ UNCHANGED <<event, result, extract_calls, s3_read, cache_at_entry,
                   timer_vars, dedupe_vars, matcher_vars, parser_vars, download_vars>>

\* Lines 220 and 245-257: put_object raises, the last handler answers.
SaveFails ==
    /\ pc = "save"
    /\ http_response' = Some(Failure(500, "INTERNAL_ERROR"))
    /\ pc' = "responded"
    /\ UNCHANGED <<cache, event, result, extract_calls, s3_read, cache_at_entry,
                   timer_vars, dedupe_vars, matcher_vars, parser_vars, download_vars>>

HandlerNext ==
    \/ Invoke
    \/ RejectRequest
    \/ AcceptRequest
    \/ CheckCache
    \/ ExtractFails
    \/ ExtractReturns
    \/ SaveToCache
    \/ SaveFails

SpecHandler == HandlerInit /\ [][HandlerNext]_vars

(***************************************************************************)
(* VideoExtractor.download_captions (extractor.py lines 234-270).          *)
(***************************************************************************)
max_retries == 3
retry_delay == 5

\* The caption tracks handed to download_captions.
CaptionObjs == { [url |-> "https://captions/a.vtt"], [url |-> "https://captions/b.vtt"] }

\* self.proxy: None or the configured proxy.
ProxyChoices == { None, Some("http://proxy:8080") }

\* Lines 243-246.
Proxies(p) == IF IsNone(p) THEN None ELSE Some([http |-> Val(p), https |-> Val(p)])

\* How requests.get ends: with a response, or with an exception of the
\* transport (status_code 0).
HttpResponse(status_code, text) == [kind |-> "response", status_code |-> status_code, text |-> text]
TransportError(name) == [kind |-> name, status_code |-> 0, text |-> ""]

GetOutcomes ==
    { HttpResponse(200, "WEBVTT a"), HttpResponse(200, ""),
      HttpResponse(429, "slow down"), HttpResponse(404, ""), HttpResponse(500, ""),
      TransportError("ConnectionError"), TransportError("Timeout") }

\* Line 252: response.raise_for_status() raises HTTPError for 4xx and 5xx.
RaisesHTTPError(o) == o.kind = "response" /\ o.status_code >= 400 /\ o.status_code < 600

\* Lines 257-258: the error is retried.
MayRetry(o, n) == o.status_code = 429 /\ n < max_retries - 1

\* Line 259.
WaitTimeFixed(n) == retry_delay

WaitTime(n) == retry_delay * (2 ^ n)

\* Line 254: return response.text.
Returned(o) == Some([kind |-> "return", text |-> o.text, error |-> "", status_code |-> 0])

\* Lines 264 and 268: raise.
Raised(o) ==
    Some([kind |-> "raise", text |-> "",
          error |-> IF o.kind = "response" THEN "HTTPError" ELSE o.kind,
          status_code |-> o.status_code])

LastOutcome == get_outcomes[Len(get_outcomes)]

DownloadInit ==
    /\ pc = "download_attempt"
    /\ caption_obj \in CaptionObjs
    /\ proxy \in ProxyChoices
    /\ attempt = 0
    /\ get_calls = <<>>
    /\ get_outcomes = <<>>
    /\ sleeps = <<>>
    /\ download_result = None
    /\ TimerIdle
    /\ DedupeIdle
    /\ MatcherIdle
    /\ ParserIdle
    /\ HandlerIdle

\* Lines 248-251: one iteration of the loop calls requests.get.  The loop
\* never runs out: an iteration returns, raises, or continues with
\* attempt < max_retries - 1, so line 270 is not reached.
RequestsGet ==
    /\ pc = "download_attempt"
    /\ attempt < max_retries
    /\ \E o \in GetOutcomes : get_outcomes' = Append(get_outcomes, o)
    /\ get_calls' = Append(get_calls, [url |-> caption_obj.url, timeout |-> 30,
                                       proxies |-> Proxies(proxy)])
    /\ pc' = "download_response"
    /\ UNCHANGED <<caption_obj, proxy, attempt, sleeps, download_result,
                   timer_vars, dedupe_vars, matcher_vars, parser_vars, handler_vars>>

\* Lines 252-254.
ReturnText ==
    /\ pc = "download_response"
    /\ LastOutcome.kind = "response"
    /\ ~RaisesHTTPError(LastOutcome)
    /\ download_result' = Returned(LastOutcome)
    /\ pc' = "download_returned"
    /\ UNCHANGED <<caption_obj, proxy, attempt, get_calls, get_outcomes, sleeps,
                   timer_vars, dedupe_vars, matcher_vars, parser_vars, handler_vars>>

\* Lines 255-262: 429 before the last attempt: sleep and continue.
RateLimited ==
    /\ pc = "download_response"
    /\ RaisesHTTPError(LastOutcome)
    /\ MayRetry(LastOutcome, attempt)
    /\ sleeps' = Append(sleeps, WaitTime(attempt))
    /\ attempt' = attempt + 1
    /\ pc' = "download_attempt"
    /\ UNCHANGED <<caption_obj, proxy, get_calls, get_outcomes, download_result,
                   timer_vars, dedupe_vars, matcher_vars, parser_vars, handler_vars>>

\* Lines 255-258, 263-264: every other HTTP error is raised again.
RaiseHTTPError ==
    /\ pc = "download_response"
    /\ RaisesHTTPError(LastOutcome)
    /\ ~MayRetry(LastOutcome, attempt)
    /\ download_result' = Raised(LastOutcome)
    /\ pc' = "download_raised"
    /\ UNCHANGED <<caption_obj, proxy, attempt, get_calls, get_outcomes, sleeps,
                   timer_vars, dedupe_vars, matcher_vars, parser_vars, handler_vars>>

\* Lines 265-268: every other exception is raised again.
RaiseException ==
    /\ pc = "download_response"
    /\ LastOutcome.kind # "response"
    /\ download_result' = Raised(LastOutcome)
    /\ pc' = "download_raised"
    /\ UNCHANGED <<caption_obj, proxy, attempt, get_calls, get_outcomes, sleeps,
                   timer_vars, dedupe_vars, matcher_vars, parser_vars, handler_vars>>

DownloadNext == RequestsGet \/ ReturnText \/ RateLimited \/ RaiseHTTPError \/ RaiseException

SpecDownload == DownloadInit /\ [][DownloadNext]_vars

(***************************************************************************)
(* Properties of _dedupe_yt_captions.                                      *)
(***************************************************************************)
Deduped == pc = "deduped"
StartOf(caption) == ts_to_secs(caption.start_time)
EndOf(caption) == ts_to_secs(caption.end_time)

\* C5: a finished run of _dedupe_yt_captions has yielded at most as many
\* captions as it was handed.
C5_LengthBound ==
    Deduped => Len(yielded) <= Len(captions)

\* A first run on three captions that merged some of them and yielded fewer.
C5_Witness ==
    /\ Deduped
    /\ run = 1
    /\ Len(captions) = 3
    /\ Len(yielded) \in 1..2

\* The captions handed to the first run are in non-decreasing start order.
InputOrdered ==
    \A k \in 1..(Len(subs_input) - 1) :
        StartOf(subs_input[k]) <= StartOf(subs_input[k + 1])

\* No caption handed to the first run starts after its own end.
InputWellFormed ==
    \A k \in 1..Len(subs_input) : StartOf(subs_input[k]) <= EndOf(subs_input[k])

\* C6: for input in non-decreasing start order the yielded captions are in
\* non-decreasing start order and each starts no earlier than 1 ms before
\* the end of the one before it.
C6_OrderedOutput ==
    (Deduped /\ run = 1 /\ InputOrdered) =>
        \A k \in 1..(Len(Output) - 1) :
            /\ StartOf(Output[k]) <= StartOf(Output[k + 1])
            /\ StartOf(Output[k + 1]) >= EndOf(Output[k]) - 1

\* The two captions of the merge example.
MergeExample ==
    <<Caption(0, 500, txt_the_quick), Caption(400, 1200, txt_the_quick_brown_fox)>>

\* C7 as claimed: the merge example yields one caption, "the quick brown
\* fox" from 0.0 s to 1.2 s.
C7_MergeExampleOneCue ==
    (Deduped /\ run = 1 /\ subs_input = MergeExample) =>
        Segments(Output) =
            <<[startTime |-> 0, endTime |-> 1200, text |-> txt_the_quick_brown_fox]>>

\* C7 as amended: the merge example yields two captions (and so two
\* segments), "the quick" from 0.0 s to 0.399 s and "the quick brown fox"
\* from 0.4 s to 1.2 s.
C7_MergeExampleTwoCues ==
    (Deduped /\ run = 1 /\ subs_input = MergeExample) =>
        Segments(Output) =
            <<[startTime |-> 0, endTime |-> 399, text |-> txt_the_quick],
              [startTime |-> 400, endTime |-> 1200, text |-> txt_the_quick_brown_fox]>>

C7_Witness ==
    /\ Deduped
    /\ run = 1
    /\ subs_input = MergeExample
    /\ Len(yielded) = 2

\* C8: a run of _dedupe_yt_captions on the output of a run yields that
\* output again.
C8_Idempotent ==
    (Deduped /\ run = 2) => Output = first_output

\* C14: for input in non-decreasing start order every segment made of the
\* yielded captions has startTime <= endTime and the segments are in
\* non-decreasing startTime order.
C14_SegmentsOrdered ==
    (Deduped /\ run = 1 /\ InputOrdered) =>
        LET segs == Segments(Output)
        IN  /\ \A k \in 1..Len(segs) : segs[k].startTime <= segs[k].endTime
            /\ \A k \in 1..(Len(segs) - 1) : segs[k].startTime <= segs[k + 1].startTime

\* The separator the gap, in milliseconds, calls for.
GapSeparator(gap) ==
    IF gap >= 2000 THEN <<"\n", "\n">>
    ELSE IF gap >= 1000 THEN <<"\n">>
    ELSE <<" ">>

\* The texts of the first n segments, each but the first after the separator
\* of the gap between its start and the end of the segment before it.
RECURSIVE SeparatedByGap(_, _)
SeparatedByGap(segs, n) ==
    IF n = 0 THEN <<>>
    ELSE IF n = 1 THEN segs[1].text
    ELSE SeparatedByGap(segs, n - 1)
            \o GapSeparator(segs[n].startTime - segs[n - 1].endTime)
            \o segs[n].text

\* C17: the plain text is the texts of the yielded captions, each but the
\* first after one separator: two line breaks for a gap of 2 s or more, one
\* for a gap of 1 s or more, a space for any smaller gap (runs of spaces
\* being collapsed at the end).
C17_SeparatorByGap ==
    (Deduped /\ run = 1) =>
        Transcript(Output) =
            CollapseSpaces(SeparatedByGap(Segments(Output), Len(Output)))

\* C18: a finished run has left every caption it was handed as it was.
C18_InputUnmodified ==
    (Deduped /\ run = 1) => captions = subs_input

\* C20: a step that takes a caption with text into the pending caption
\* without changing the pending text and without yielding is taken only for
\* a caption that lasts less than 0.15 s and whose text is part of the
\* pending text; the pending caption then ends where that caption ends.
C20_NearZeroContainment ==
    [][ ( /\ pc = "dedupe"
          /\ run = 1
          /\ di <= Len(captions)
          /\ previous_subtitle # 0
          /\ strip(Text(captions[di])) # <<>>
          /\ previous_subtitle' = previous_subtitle
          /\ yielded' = yielded
          /\ di' = di + 1
          /\ Text(captions'[previous_subtitle]) = Text(captions[previous_subtitle]) )
        => ( /\ EndOf(captions[di]) - StartOf(captions[di]) < 150
             /\ Contains(Text(captions[previous_subtitle]), strip(Text(captions[di])))
             /\ captions'[previous_subtitle].end_time = captions[di].end_time ) ]_vars

\* The step about to be taken handles caption di with a pending caption,
\* the caption has text and the duplicate test of lines 309-315 lets it pass.
ReachesLineComparison ==
    /\ pc = "dedupe"
    /\ di <= Len(captions)
    /\ previous_subtitle # 0
    /\ strip(Text(captions[di])) # <<>>
    /\ ~IsShortDuplicate(SetText(captions[di], strip(Text(captions[di]))),
                         captions[previous_subtitle])

\* The caption's first line is the pending caption's last line.
FirstLineRepeatsLastLine ==
    LET current_lines == split(strip(Text(captions[di])), "\n")
        last_lines == split(Text(captions[previous_subtitle]), "\n")
    IN  current_lines[1] = last_lines[Len(last_lines)]

\* Captions are yielded in the order of the input, a caption is yielded only
\* while it is the pending one, and the pending one is never behind a
\* yielded one.
YieldsOnlyPending ==
    /\ [](\A k \in 1..Len(yielded) : yielded[k] <= previous_subtitle)
    /\ [][(pc = "dedupe" /\ yielded' # yielded) =>
              (yielded' = Append(yielded, previous_subtitle) /\ previous_subtitle # 0)]_vars

Searched == pc = "searched"

\* The timestamps of the cues in which the keyword is found.
HitTimes(keyword) ==
    {TimestampOf(cues[c]) : c \in {c \in 1..Len(cues) : Found(keyword, cues[c])}}

\* C9: no match carries a keyword that is, compared case-insensitively, a
\* stopword, whatever the cues contain.
C9_StopwordNeverMatches ==
    \A k \in 1..Len(matches) : lower(matches[k].keyword) \notin STOPWORDS

\* The keyword "Add" was searched in a transcript with a cue in which it
\* would be found, and another keyword did match.
C9_Witness ==
    /\ Searched
    /\ \E k \in 1..Len(keywords) : keywords[k] = kw_Add
    /\ \E c \in 1..Len(cues) : Found(kw_Add, cues[c])
    /\ Len(matches) > 0

\* C10: two matches of the same keyword (compared case-insensitively) are
\* more than 3 s apart; every cue in which a searched keyword is found lies
\* within 3 s of a match of that keyword (a hit is dropped only for a
\* recorded timestamp within 3 s); one keyword with hits at 10 s and 11 s
\* gives one match, with hits at 10 s and 14 s two.
C10_TemporalDedup ==
    /\ \A k, l \in 1..Len(matches) :
          (k # l /\ lower(matches[k].keyword) = lower(matches[l].keyword)) =>
              Abs(matches[k].timestamp_seconds - matches[l].timestamp_seconds) > 3
    /\ Searched =>
          \A k \in 1..Len(keywords) : \A c \in 1..Len(cues) :
              (~IsStopword(keywords[k]) /\ Found(keywords[k], cues[c])) =>
                  \E m \in 1..Len(matches) :
                      /\ lower(matches[m].keyword) = lower(keywords[k])
                      /\ Abs(matches[m].timestamp_seconds - TimestampOf(cues[c])) <= 3
    /\ (Searched /\ Len(keywords) = 1 /\ ~IsStopword(keywords[1])) =>
          /\ HitTimes(keywords[1]) = {10, 11} => Len(matches) = 1
          /\ HitTimes(keywords[1]) = {10, 14} => Len(matches) = 2

\* One keyword found at 10 s, 11 s and 14 s: the matches are those at 10 s
\* and 14 s.
C10_Witness ==
    /\ Searched
    /\ Len(keywords) = 1
    /\ HitTimes(keywords[1]) = {10, 11, 14}
    /\ Len(matches) = 2
    /\ matches[1].timestamp_seconds = 10
    /\ matches[2].timestamp_seconds = 14

\* C11: two matches whose keywords have the same stem are more than 3 s
\* apart, also when the keywords themselves differ.
C11_OnePerStemWindow ==
    \A k, l \in 1..Len(matches) :
        (k # l /\ stem_keyword(matches[k].keyword) = stem_keyword(matches[l].keyword)) =>
            Abs(matches[k].timestamp_seconds - matches[l].timestamp_seconds) > 3

\* C12: the returned matches, over all the keywords, are in non-decreasing
\* order of timestamp.
C12_SortedByTimestamp ==
    Searched =>
        \A k, l \in 1..Len(matches) :
            k < l => matches[k].timestamp_seconds <= matches[l].timestamp_seconds

\* The first keyword matched later in the transcript than the second one, so
\* the matches were found out of order.
C12_Witness ==
    /\ Searched
    /\ Len(keywords) = 2
    /\ \E k, l \in 1..Len(matches) :
          /\ lower(matches[k].keyword) = lower(keywords[1])
          /\ lower(matches[l].keyword) = lower(keywords[2])
          /\ lower(keywords[1]) # lower(keywords[2])
          /\ matches[l].timestamp_seconds < matches[k].timestamp_seconds

\* C26: a keyword, not a stopword, and a cue of the same original text have
\* the same normalized form, and the keyword is matched at that cue.
C26_SameNormalization ==
    Searched =>
        \A k \in 1..Len(keywords) : \A c \in 1..Len(cues) :
            (cues[c].text = keywords[k] /\ ~IsStopword(keywords[k])) =>
                /\ stem_keyword(keywords[k]) = cues[c].normalized
                /\ \E m \in 1..Len(matches) :
                      /\ matches[m].keyword = keywords[k]
                      /\ Abs(matches[m].timestamp_seconds - TimestampOf(cues[c])) <= DedupWindow

(***************************************************************************)
(* Properties of parse_vtt_cues.                                           *)
(***************************************************************************)
Parsed == pc = "parsed"

\* Some line of the content is a cue timing line.
HasTimestampLine ==
    \E k \in 1..Len(vtt_lines) : TimestampMatch(strip(vtt_lines[k]))

\* C13: parse_vtt_cues returns no cue list for content without a cue timing
\* line (it fails instead).
C13_NoTimestampNoReturn ==
    ~(Parsed /\ ~HasTimestampLine)

(***************************************************************************)
(* Properties of predict_step_times.                                       *)
(***************************************************************************)
TimerDone == pc = "timer_done"
NumSteps == Len(instructions)
PT(k) == Val(instructions[k].predicted_time)

\* The raw start pass 1 gives step k (a function of the step's references).
Raw1(k) == RawStart(instructions[k])

\* C1: after predict_step_times, for consecutive steps k, k+1 the predicted
\* start of k+1 is not before the predicted end of k.
C1_NoOverlap ==
    TimerDone =>
        \A k \in 1..(NumSteps - 1) : PT(k + 1).start_seconds >= PT(k).end_seconds

\* A step with references earlier than the previous step's end was pushed
\* to that end.
C1_Witness ==
    /\ TimerDone
    /\ \E k \in 1..(NumSteps - 1) :
          /\ ~IsNone(Raw1(k + 1))
          /\ Val(Raw1(k + 1)) < PT(k).end_seconds
          /\ PT(k + 1).start_seconds = PT(k).end_seconds

\* C2: after predict_step_times on a non-empty list the last step's
\* predicted end is video_duration.
C2_LastEndIsDuration ==
    (TimerDone /\ NumSteps > 0) => PT(NumSteps).end_seconds = video_duration

\* The last step starts after the end of the video and still ends at it.
C2_Witness ==
    /\ TimerDone
    /\ NumSteps > 1
    /\ PT(NumSteps).start_seconds > video_duration
    /\ PT(NumSteps).end_seconds = video_duration

\* C3: after predict_step_times every predicted window lasts at least
\* MIN_STEP_DURATION seconds, unless start + MIN_STEP_DURATION exceeds
\* video_duration and the end is video_duration.
C3_MinimumDuration ==
    TimerDone =>
        \A k \in 1..NumSteps :
            \/ PT(k).end_seconds - PT(k).start_seconds >= MIN_STEP_DURATION
            \/ /\ PT(k).start_seconds + MIN_STEP_DURATION > video_duration
               /\ PT(k).end_seconds = video_duration

\* One step is cut short by the end of the video and another step, whose
\* next raw start is nearer than the minimum, lasts exactly the minimum.
C3_Witness ==
    /\ TimerDone
    /\ \E k \in 1..NumSteps :
          /\ PT(k).end_seconds - PT(k).start_seconds < MIN_STEP_DURATION
          /\ PT(k).end_seconds = video_duration
    /\ \E k \in 1..(NumSteps - 1) :
          /\ ~IsNone(Raw1(k + 1))
          /\ Val(Raw1(k + 1)) < PT(k).start_seconds + MIN_STEP_DURATION
          /\ PT(k).end_seconds - PT(k).start_seconds = MIN_STEP_DURATION

\* Step i has no references and lies between the nearest steps p and q
\* that have some.
Between(p, i, q) ==
    /\ p < i /\ i < q
    /\ IsNone(Raw1(i))
    /\ ~IsNone(Raw1(p)) /\ ~IsNone(Raw1(q))
    /\ \A j \in (p + 1)..(q - 1) : IsNone(Raw1(j))

\* The steps' pass-1 raw starts are 0, unknown, 60 and the video lasts 90 s.
InterpolationExample ==
    /\ NumSteps = 3
    /\ video_duration = 90
    /\ Raw1(1) = Some(0) /\ IsNone(Raw1(2)) /\ Raw1(3) = Some(60)

C15_DegenerateWindows ==
    (TimerDone /\ video_duration <= 0) =>
        \A k \in 1..NumSteps : PT(k) = [start_seconds |-> 0, end_seconds |-> 0]

\* C16: with video_duration >= 0 predict_step_times raises nothing (no
\* division by zero, the empty list included), every state before the end
\* has a next step, and at the end every step has a predicted window.
C16_NeverFails ==
    video_duration >= 0 =>
        /\ pc # "ZeroDivisionError"
        /\ pc \in {"first_pass", "second_pass", "sort", "third_pass"} => ENABLED TimerNext
        /\ TimerDone => \A k \in 1..NumSteps : ~IsNone(instructions[k].predicted_time)

\* Three steps, none with a reference, have their windows.
C16_Witness ==
    /\ TimerDone
    /\ video_duration >= 0
    /\ NumSteps = 3
    /\ \A k \in 1..NumSteps : instructions[k].video_references = <<>>
    /\ \A k \in 1..NumSteps : ~IsNone(instructions[k].predicted_time)

(***************************************************************************)
(* Properties of lambda_handler.                                           *)
(***************************************************************************)
Responded == pc = "responded"

\* The request names a YouTube video.
NamesVideo ==
    /\ ~IsNone(event)
    /\ event.body = "json"
    /\ ~IsNone(event.videoUrl)
    /\ validate_youtube_url(Val(event.videoUrl))

\* The response of a cache hit: 200, cached = true, the data that was in the
\* cache when the handler was entered.
IsCacheHit ==
    /\ ~IsNone(cache_at_entry[VideoId])
    /\ http_response = Some(Success(TRUE, gunzip_json(Val(cache_at_entry[VideoId]))))
    /\ extract_calls = 0

\* The cache differs from the cache on entry only after an extraction that
\* returned a transcript and by the object of that extraction; no response
\* but the uncached 200 comes with a changed cache.
CacheWrittenOnlyAfterExtraction ==
    /\ cache # cache_at_entry =>
          /\ Responded
          /\ extract_calls = 1
          /\ ~IsNone(result)
          /\ ~IsNone(Val(result).transcript)
          /\ http_response = Some(Success(FALSE, CacheData(Val(result))))
          /\ cache = [cache_at_entry EXCEPT
                         ![VideoId] = Some(gzip_json(CacheData(Val(result))))]
    /\ (Responded /\ Val(http_response).cached # Some(FALSE)) => cache = cache_at_entry

\* C19 as claimed: every request without skipCache for a video whose result
\* is in the cache is answered by a cache hit without an extraction, and the
\* cache is written only after an extraction that returned a transcript.
C19_CachedRequestHits ==
    /\ (Responded /\ NamesVideo /\ ~SkipCache(event.options)
            /\ ~IsNone(cache_at_entry[VideoId])) => IsCacheHit
    /\ CacheWrittenOnlyAfterExtraction

\* C19 as amended: a request whose options are absent or an object without
\* a true skipCache, for a video whose cached object get_object reads, is
\* answered by a cache hit without an extraction (when the read fails the
\* handler goes on as for a miss); the cache is written only after an
\* extraction that returned a transcript.
C19_ReadableCachedRequestHits ==
    /\ (Responded /\ NamesVideo /\ ~SkipCache(event.options) /\ event.options # "null"
            /\ ~IsNone(cache_at_entry[VideoId]) /\ s3_read # "failed") => IsCacheHit
    /\ CacheWrittenOnlyAfterExtraction

\* A request without skipCache for a video an earlier invocation cached was
\* answered from the cache.
C19_Witness ==
    /\ Responded
    /\ NamesVideo
    /\ event.options \in {"absent", "skip_false"}
    /\ s3_read = "ok"
    /\ IsCacheHit
    /\ cache = cache_at_entry

\* The least element of a non-empty set of numbers.
Least(S) == CHOOSE m \in S : \A x \in S : m <= x

\* The timestamps of a step's matches, and of those whose keyword is one of
\* the step's techniques, compared case-insensitively.
MatchTimes(inst) ==
    {inst.video_references[k].timestamp_seconds : k \in 1..Len(inst.video_references)}

TechniqueMatchTimes(inst) ==
    {inst.video_references[k].timestamp_seconds :
        k \in {j \in 1..Len(inst.video_references) :
                 \E t \in 1..Len(inst.techniques) :
                     lower(inst.video_references[j].keyword) = lower(inst.techniques[t])}}

\* C23: after pass 1 the raw start of a step is the least timestamp of its
\* technique matches if it has any, else the least timestamp of its
\* matches, else unknown.
C23_TechniqueFirst ==
    pc = "second_pass" =>
        \A k \in 1..NumSteps :
            instructions[k].raw_start =
                IF TechniqueMatchTimes(instructions[k]) # {}
                THEN Some(Least(TechniqueMatchTimes(instructions[k])))
                ELSE IF MatchTimes(instructions[k]) # {}
                THEN Some(Least(MatchTimes(instructions[k])))
                ELSE None

\* A step has a technique match at 60 s and another match before it: its
\* raw start is 60.
C23_Witness ==
    /\ pc = "second_pass"
    /\ \E k \in 1..NumSteps :
          /\ TechniqueMatchTimes(instructions[k]) # {}
          /\ Least(MatchTimes(instructions[k])) < Least(TechniqueMatchTimes(instructions[k]))
          /\ instructions[k].raw_start = Some(60)

\* The second pass is over and the raw starts are still there.
RawFilled == pc \in {"sort", "third_pass"}

\* No step has a match.
NoMatches == \A k \in 1..NumSteps : instructions[k].video_references = <<>>

\* C24: when no step has a match, step k (counted from 0) has the raw start
\* k * floor(D / n); if floor(D / n) >= 5 the predicted window of a step
\* that is not the last is [k * floor(D / n), (k + 1) * floor(D / n)] and
\* that of the last step is [(n - 1) * floor(D / n), D].
C24_EvenDistribution ==
    NoMatches =>
        LET each == video_duration \div Max(NumSteps, 1)
        IN  /\ RawFilled =>
                  \A k \in 1..NumSteps : instructions[k].raw_start = Some((k - 1) * each)
            /\ (TimerDone /\ each >= 5) =>
                  \A k \in 1..NumSteps :
                      PT(k) = [start_seconds |-> (k - 1) * each,
                               end_seconds |-> IF k < NumSteps THEN k * each
                                               ELSE video_duration]

\* Three steps without matches in a video of 90 s: 0-30, 30-60, 60-90.
C24_Witness ==
    /\ TimerDone
    /\ NoMatches
    /\ NumSteps = 3
    /\ video_duration = 90
    /\ PT(1) = [start_seconds |-> 0, end_seconds |-> 30]
    /\ PT(2) = [start_seconds |-> 30, end_seconds |-> 60]
    /\ PT(3) = [start_seconds |-> 60, end_seconds |-> 90]

\* The steps with a known pass-1 raw start before and after step i.
KnownBefore(i) == {p \in 1..(i - 1) : ~IsNone(Raw1(p))}
KnownAfter(i) == {q \in (i + 1)..NumSteps : ~IsNone(Raw1(q))}
Greatest(S) == CHOOSE m \in S : \A x \in S : x <= m

\* Step i has no match, a step before it has one and no step after it.
OnlyBefore(i) == IsNone(Raw1(i)) /\ KnownBefore(i) # {} /\ KnownAfter(i) = {}

\* Step i has no match, a step after it has one and no step before it.
OnlyAfter(i) == IsNone(Raw1(i)) /\ KnownBefore(i) = {} /\ KnownAfter(i) # {}

\* C25 as claimed, avg being the quotient D / n and D >= 0: with r the raw start of
\* step i, n * r = min(n * tp + D * (i - p), n * (D - 5)) going forward and
\* n * r = max(n * tq - D * (q - i), 0) going backward.
C25_ExtrapolationExactAverage ==
    (RawFilled /\ video_duration >= 0) =>
        \A i \in 1..NumSteps :
            LET r == Val(instructions[i].raw_start)
                n == NumSteps
            IN  /\ OnlyBefore(i) =>
                      LET p == Greatest(KnownBefore(i))
                      IN  n * r = Min(n * Val(Raw1(p)) + video_duration * (i - p),
                                      n * (video_duration - 5))
                /\ OnlyAfter(i) =>
                      LET q == Least(KnownAfter(i))
                      IN  n * r = Max(n * Val(Raw1(q)) - video_duration * (q - i), 0)

\* C25 as amended, avg being floor(D / n): the raw start of step i is
\* min(tp + avg * (i - p), D - 5) going forward, so at most D - 5, and
\* max(tq - avg * (q - i), 0) going backward, so at least 0.
C25_ExtrapolationFloorAverage ==
    RawFilled =>
        \A i \in 1..NumSteps :
            LET r == Val(instructions[i].raw_start)
                avg == video_duration \div NumSteps
            IN  /\ OnlyBefore(i) =>
                      LET p == Greatest(KnownBefore(i))
                      IN  /\ r = Min(Val(Raw1(p)) + avg * (i - p), video_duration - 5)
                          /\ r <= video_duration - 5
                /\ OnlyAfter(i) =>
                      LET q == Least(KnownAfter(i))
                      IN  /\ r = Max(Val(Raw1(q)) - avg * (q - i), 0)
                          /\ r >= 0

\* A video of 90 s: a step after the last known one would be extrapolated
\* beyond 85 s and has the raw start 85.
C25_Witness ==
    /\ RawFilled
    /\ video_duration = 90
    /\ \E i \in 1..NumSteps :
          /\ OnlyBefore(i)
          /\ instructions[i].raw_start = Some(85)
          /\ Val(Raw1(Greatest(KnownBefore(i))))
                + (video_duration \div NumSteps) * (i - Greatest(KnownBefore(i))) > 85

\* No step of predict_step_times changes the number of instructions or the
\* step, the techniques or the video_references of one of them.
StepsKept ==
    [][ /\ Len(instructions') = Len(instructions)
        /\ \A k \in 1..Len(instructions) :
              /\ instructions'[k].step = instructions[k].step
              /\ instructions'[k].techniques = instructions[k].techniques
              /\ instructions'[k].video_references = instructions[k].video_references ]_vars

\* C27: predict_step_times leaves the step, the techniques and the
\* video_references of every instruction as they were, and when it returns
\* every instruction has a predicted_time and none has a _raw_start.
C27_OnlyPredictedTime ==
    /\ StepsKept
    /\ [](TimerDone => \A k \in 1..NumSteps :
              /\ ~instructions[k].has_raw_start
              /\ instructions[k].raw_start = None
              /\ ~IsNone(instructions[k].predicted_time))

\* Three steps, one of them with a reference, after the function returned.
C27_Witness ==
    /\ TimerDone
    /\ NumSteps = 3
    /\ \E k \in 1..NumSteps : instructions[k].video_references # <<>>
    /\ \A k \in 1..NumSteps : ~instructions[k].has_raw_start /\ ~IsNone(instructions[k].predicted_time)

\* C28: with video_duration >= 0, every predicted window has
\* start_seconds <= end_seconds.
C28_WellFormedWindows ==
    (TimerDone /\ video_duration >= 0) =>
        \A k \in 1..NumSteps : PT(k).start_seconds <= PT(k).end_seconds

\* C29: with video_duration >= 0, every predicted window lies in the video:
\* 0 <= start_seconds and end_seconds <= video_duration.
C29_WindowsInsideVideo ==
    (TimerDone /\ video_duration >= 0) =>
        \A k \in 1..NumSteps :
            /\ 0 <= PT(k).start_seconds
            /\ PT(k).end_seconds <= video_duration

(***************************************************************************)
(* Properties of download_captions.                                        *)
(***************************************************************************)
Is429(o) == o.kind = "response" /\ o.status_code = 429
IsSuccess(o) == o.kind = "response" /\ o.status_code = 200

\* At most 3 calls of requests.get; every call but the last ended in a 429;
\* the waits are 5 s and 10 s, one before each call after the first.
AttemptsAndWaits ==
    /\ Len(get_calls) <= 3
    /\ Len(get_outcomes) <= Len(get_calls)
    /\ \A k \in 1..(Len(get_outcomes) - 1) : Is429(get_outcomes[k])
    /\ Len(sleeps) <= 2
    /\ \A k \in 1..Len(sleeps) : sleeps[k] = IF k = 1 THEN 5 ELSE 10
    /\ Len(get_calls) <= Len(sleeps) + 1
    /\ \A k \in 1..Len(sleeps) : Is429(get_outcomes[k])

\* What follows the answer to a call: the body is returned, the 429 of a
\* first or second call is followed by the wait and nothing else, every
\* other failure is raised; none of these makes a call.
AnswerHandled ==
    pc = "download_response" =>
        LET o == get_outcomes[Len(get_outcomes)]
        IN  /\ get_calls' = get_calls
            /\ IF IsSuccess(o)
               THEN /\ download_result' = Some([kind |-> "return", text |-> o.text,
                                                error |-> "", status_code |-> 0])
                    /\ sleeps' = sleeps
               ELSE IF Is429(o) /\ Len(get_calls) < 3
               THEN /\ download_result' = None
                    /\ sleeps' = Append(sleeps, IF Len(get_calls) = 1 THEN 5 ELSE 10)
               ELSE /\ ~IsNone(download_result')
                    /\ Val(download_result').kind = "raise"
                    /\ Val(download_result').status_code = o.status_code
                    /\ sleeps' = sleeps

\* C30: download_captions calls requests.get at most 3 times, again only
\* after a 429, having slept 5 s before the second call and 10 s before the
\* third; a success returns the body, any other failure and the 429 of the
\* third call are raised, and nothing happens after the return or the raise.
C30_RetryOnlyOn429 ==
    /\ []AttemptsAndWaits
    /\ [][AnswerHandled]_vars
    /\ [][IsNone(download_result)]_vars

\* Three calls answered with 429: waits of 5 s and 10 s, then the error is raised.
C30_Witness ==
    /\ Len(get_calls) = 3
    /\ \A k \in 1..3 : Is429(get_outcomes[k])
    /\ sleeps = <<5, 10>>
    /\ ~IsNone(download_result)
    /\ Val(download_result).kind = "raise"
    /\ Val(download_result).status_code = 429

====
